---- MODULE Spec2Model ----
(***************************************************************************)
(* clash-ip-checker: the proxy evaluation pipeline.                        *)
(*                                                                         *)
(* Strings are sequences of tokens (a token is one character, or a word    *)
(* that the code never looks inside).  Non-ASCII characters of the source  *)
(* are written as ASCII stand-ins:                                         *)
(*   "[[" "]]"  the brackets of the summary       "X"    the cross mark    *)
(*   "(?)"      the question-mark emoji sentinel  "?"    the ASCII '?'     *)
(*   "CuoWu"    the Chinese word for error        "WeiZhi" for unknown     *)
(*   "white" "green" "yellow" "orange" "red" "black"  the severity emoji   *)
(***************************************************************************)
EXTENDS Naturals, Integers, Sequences, FiniteSets, TLC

\* ------------------------------------------------------------------ bounds
MaxProxies == 2
MaxSaveProxies == 2
MaxGroups == 1
MaxMembers == 2
MaxPercentLen == 4

\* ------------------------------------------------------- string utilities
NO_ERROR == "None"
EMPTY == <<>>
UNKNOWN == <<"(?)">>
WHITESPACE == {" ", "\n"}
DIGITS == {"0", "1", "2", "3", "4", "5", "6", "7", "8", "9"}

RECURSIVE Strip(_)
Strip(s) ==
    IF s = <<>> THEN s
    ELSE IF Head(s) \in WHITESPACE THEN Strip(Tail(s))
    ELSE IF s[Len(s)] \in WHITESPACE THEN Strip(SubSeq(s, 1, Len(s) - 1))
    ELSE s

RECURSIVE Remove(_, _)
Remove(s, tok) ==
    IF s = <<>> THEN s
    ELSE IF Head(s) = tok THEN Remove(Tail(s), tok)
    ELSE <<Head(s)>> \o Remove(Tail(s), tok)

Contains(kw, name) ==
    \E k \in 0 .. (Len(name) - Len(kw)) : SubSeq(name, k + 1, k + Len(kw)) = kw

AllDigits(s, lo, hi) == \A k \in lo .. hi : s[k] \in DIGITS

DigitVal(c) == CHOOSE n \in 0 .. 9 : ToString(n) = c

RECURSIVE IntVal(_)
IntVal(s) == IF s = <<>> THEN 0 ELSE IntVal(SubSeq(s, 1, Len(s) - 1)) * 10 + DigitVal(s[Len(s)])

\* ------------------------------------------------------ IPChecker.get_emoji
\* float(): over the tokens the model uses a string parses iff, once stripped,
\* it is digits with at most one "." and at least one digit.
FloatParses(s) ==
    LET t == Strip(s)
        dots == {k \in 1 .. Len(t) : t[k] = "."}
    IN  /\ \A k \in 1 .. Len(t) : t[k] \in DIGITS \cup {"."}
        /\ Cardinality(dots) <= 1
        /\ Len(t) > Cardinality(dots)

FloatInt(s) ==
    LET t == Strip(s)
        dots == {k \in 1 .. Len(t) : t[k] = "."}
        cut == IF dots = {} THEN Len(t) ELSE (CHOOSE k \in dots : TRUE) - 1
    IN  IntVal(SubSeq(t, 1, cut))

FloatHasFraction(s) ==
    LET t == Strip(s)
        dots == {k \in 1 .. Len(t) : t[k] = "."}
    IN  /\ dots # {}
        /\ \E k \in ((CHOOSE d \in dots : TRUE) + 1) .. Len(t) : t[k] # "0"

\* val < n: a boundary value put in the upper band
FloatLeq_strict(s, n) == FloatInt(s) < n

\* val <= n for the parsed float val
FloatLeq(s, n) == FloatInt(s) < n \/ (FloatInt(s) = n /\ ~FloatHasFraction(s))

get_emoji(percentage_str) ==
    LET v == Remove(percentage_str, "%")
    IN  IF ~FloatParses(v) THEN "(?)"
        ELSE IF FloatLeq(v, 10) THEN "white"
        ELSE IF FloatLeq(v, 30) THEN "green"
        ELSE IF FloatLeq(v, 50) THEN "yellow"
        ELSE IF FloatLeq(v, 70) THEN "orange"
        ELSE IF FloatLeq(v, 90) THEN "red"
        ELSE "black"

\* -------------------------------------------------- IPChecker.get_simple_ip
\* re.match(r"^\d{1,3}(\.\d{1,3}){3}\d{1,3}$", ip)
QuickIpRegex(s) ==
    \E a, b, c, d, e \in 1 .. 3 :
        /\ Len(s) = a + b + c + d + e + 3
        /\ AllDigits(s, 1, a)
        /\ s[a + 1] = "."
        /\ AllDigits(s, a + 2, a + 1 + b)
        /\ s[a + b + 2] = "."
        /\ AllDigits(s, a + b + 3, a + b + 2 + c)
        /\ s[a + b + c + 3] = "."
        /\ AllDigits(s, a + b + c + 4, a + b + c + 3 + d)
        /\ AllDigits(s, a + b + c + d + 4, a + b + c + d + 3 + e)

\* one endpoint: the stripped body if the status is 200 and the body matches
EndpointIp(resp) ==
    IF resp.raised THEN EMPTY
    ELSE IF resp.status = 200 /\ QuickIpRegex(Strip(resp.text)) THEN Strip(resp.text)
    ELSE EMPTY

\* the two endpoints in order; EMPTY stands for None
get_simple_ip(resp1, resp2) ==
    IF EndpointIp(resp1) # EMPTY THEN EndpointIp(resp1) ELSE EndpointIp(resp2)

\* ------------------------------------------------------------ result values
\* test_single_proxy: res = None
None == [none |-> TRUE]
\* a call that raised instead of returning
RAISED == [raised |-> TRUE]

SwitchErrorResult ==
    [full_string |-> <<"[[", "X", " ", "Switch Error", "]]">>,
     ip |-> <<"Error">>, pure_score |-> <<"?">>, bot_score |-> <<"?">>]

PlaceholderResult ==
    [full_string |-> <<"[[", "X", " ", "Error", "]]">>,
     ip |-> <<"Error">>, pure_score |-> <<"?">>, bot_score |-> <<"?">>]

\* IPChecker.check: the default result structure
DefaultResult(ip) ==
    [pure_emoji |-> "(?)", bot_emoji |-> "(?)", ip_attr |-> UNKNOWN, ip_src |-> UNKNOWN,
     pure_score |-> UNKNOWN, bot_score |-> UNKNOWN, full_string |-> EMPTY,
     ip |-> IF ip # EMPTY THEN ip ELSE UNKNOWN, error |-> NO_ERROR]

\* re.sub(r"IP$", "", raw)
SubTrailingIP(raw) ==
    IF raw # <<>> /\ raw[Len(raw)] = "IP" THEN SubSeq(raw, 1, Len(raw) - 1) ELSE raw

\* the '|'-separated summary of a parsed result
FullString(r) ==
    LET attr == IF r.ip_attr # UNKNOWN THEN r.ip_attr ELSE EMPTY
        src == IF r.ip_src # UNKNOWN THEN r.ip_src ELSE EMPTY
        joined == Strip(attr \o <<"|">> \o src)
        info == IF joined = <<"|">> \/ joined = <<>> THEN <<"WeiZhi">> ELSE joined
    IN  <<"[[", r.pure_emoji, r.bot_emoji, " ">> \o info \o <<"]]">>

\* IPChecker.check, the parsing of the page text.  A page text is given by what
\* the five patterns find in it: score (group 1 of the purity pattern), bot
\* (group 0 of the bot pattern), attr and src (group 1), ip (group 0); EMPTY
\* where a pattern does not match.
ParsePage(text, result) ==
    LET r1 == IF text.score # EMPTY
              THEN [result EXCEPT !.pure_score = text.score,
                                  !.pure_emoji = get_emoji(text.score)]
              ELSE result
        val0 == Strip(Remove(text.bot, "bot"))
        val == IF val0 # <<>> /\ val0[Len(val0)] = "%" THEN val0 ELSE val0 \o <<"%">>
        r2 == IF text.bot # EMPTY
              THEN [r1 EXCEPT !.bot_score = val, !.bot_emoji = get_emoji(val)]
              ELSE r1
        r3 == IF text.attr # EMPTY
              THEN [r2 EXCEPT !.ip_attr = SubTrailingIP(Strip(text.attr))]
              ELSE r2
        r4 == IF text.src # EMPTY
              THEN [r3 EXCEPT !.ip_src = SubTrailingIP(Strip(text.src))]
              ELSE r3
        r5 == IF r4.ip = UNKNOWN /\ text.ip # EMPTY THEN [r4 EXCEPT !.ip = text.ip] ELSE r4
    IN  [r5 EXCEPT !.full_string = FullString(r5)]

\* a cache update that looks at the address alone
ShouldCache_ip_only(result) == result.ip # UNKNOWN

\* IPChecker.check: the condition of the cache update
ShouldCache(result) == result.ip # UNKNOWN /\ result.pure_score # UNKNOWN

\* a check that never consults the cache
CacheHit_never(ip, c) == FALSE

\* IPChecker.check: the cache lookup after the quick lookup
CacheHit(ip, c) == ip # EMPTY /\ ip \in DOMAIN c

\* IPChecker.check: the except branch
ErrorResult(result, e) ==
    [result EXCEPT !.error = e, !.full_string = <<"[[", "X", " ", "CuoWu", "]]">>]

\* test_single_proxy: the test that ends the retry loop
Satisfactory(r) == r.error = NO_ERROR /\ r.pure_score # UNKNOWN

\* ------------------------------------------------------------- main: skip
SKIP_KEYWORDS == << <<"r", "e">>, <<"u">> >>

\* a skip test that stops after the first keyword
should_skip_first_keyword(name) == Contains(SKIP_KEYWORDS[1], name)

should_skip(name) == \E k \in 1 .. Len(SKIP_KEYWORDS) : Contains(SKIP_KEYWORDS[k], name)

\* ------------------------------------------------- save_config_results
\* a document: [proxies, has_groups, groups]; a proxy entry: [name, server];
\* a group: [name, has_proxies, proxies]
NewName(old_name, rmap) == old_name \o <<" ">> \o rmap[old_name]

\* a rename that drops the separating space
RenameProxy_no_space(proxy, rmap) ==
    IF proxy.name \in DOMAIN rmap
    THEN [proxy EXCEPT !.name = proxy.name \o rmap[proxy.name]]
    ELSE proxy

RenameProxy(proxy, rmap) ==
    IF proxy.name \in DOMAIN rmap
    THEN [proxy EXCEPT !.name = NewName(proxy.name, rmap)]
    ELSE proxy

\* name_mapping: old -> new, as left by the loop over the proxies
NameMapping(doc, rmap) ==
    [old \in {doc.proxies[k].name : k \in 1 .. Len(doc.proxies)} \cap DOMAIN rmap
        |-> NewName(old, rmap)]

\* group members left as they are
RenameMember_unchanged(p_name, name_mapping) == p_name

RenameMember(p_name, name_mapping) ==
    IF p_name \in DOMAIN name_mapping THEN name_mapping[p_name] ELSE p_name

RenameGroup(group, name_mapping) ==
    IF group.has_proxies
    THEN [group EXCEPT !.proxies =
            [k \in 1 .. Len(group.proxies) |-> RenameMember(group.proxies[k], name_mapping)]]
    ELSE group

save_config_results(doc, rmap) ==
    LET name_mapping == NameMapping(doc, rmap)
    IN  [doc EXCEPT
            !.proxies = [k \in 1 .. Len(doc.proxies) |-> RenameProxy(doc.proxies[k], rmap)],
            !.groups = IF doc.has_groups
                       THEN [g \in 1 .. Len(doc.groups) |-> RenameGroup(doc.groups[g], name_mapping)]
                       ELSE doc.groups]

\* ------------------------------------------------ ClashController.switch_proxy
\* the control plane's answer to PUT /proxies/{selector}
NO_RESPONSE == [raised |-> FALSE, status |-> 0]

SWITCH_RESPONSES ==
    {[raised |-> TRUE, status |-> 0],
     [raised |-> FALSE, status |-> 204],
     [raised |-> FALSE, status |-> 500]}

\* any 2xx status taken for success
switch_proxy_any_2xx(resp) == ~resp.raised /\ resp.status \in 200 .. 299

switch_proxy(resp) == ~resp.raised /\ resp.status = 204

\* ------------------------------------------- ClashController.get_running_port
DEFAULT_PORT == 7890

\* conf.get(key, 0)
ConfGet(conf, key) == IF key \in DOMAIN conf THEN conf[key] ELSE 0

\* a lookup that prefers the HTTP port to the mixed port
get_running_port_http_first(resp) ==
    IF resp.raised \/ resp.status # 200 \/ ~resp.json THEN DEFAULT_PORT
    ELSE IF ConfGet(resp.conf, "port") # 0 THEN resp.conf["port"]
    ELSE IF ConfGet(resp.conf, "mixed-port") # 0 THEN resp.conf["mixed-port"]
    ELSE IF ConfGet(resp.conf, "socks-port") # 0 THEN resp.conf["socks-port"]
    ELSE DEFAULT_PORT

\* resp: the answer to GET /configs; json tells whether resp.json() decodes it
get_running_port(resp) ==
    IF resp.raised \/ resp.status # 200 \/ ~resp.json THEN DEFAULT_PORT
    ELSE IF ConfGet(resp.conf, "mixed-port") # 0 THEN resp.conf["mixed-port"]
    ELSE IF ConfGet(resp.conf, "port") # 0 THEN resp.conf["port"]
    ELSE IF ConfGet(resp.conf, "socks-port") # 0 THEN resp.conf["socks-port"]
    ELSE DEFAULT_PORT

\* the IP check is run whatever the switch returned
skip_ip_check_never(switched) == FALSE

\* test_single_proxy: `if not switched`, the return without an IP check
skip_ip_check(switched) == ~switched

\* ----------------------------------------------------------- the inputs
IP_A == <<"9", ".", "9", ".", "9", ".", "1", "0">>
IP_B == <<"9", ".", "9", ".", "9", ".", "9">>

ENDPOINT_RESPONSES ==
    {[raised |-> TRUE, status |-> 0, text |-> EMPTY],
     [raised |-> FALSE, status |-> 200, text |-> IP_A \o <<"\n">>],
     [raised |-> FALSE, status |-> 200, text |-> IP_B],
     [raised |-> FALSE, status |-> 500, text |-> IP_A]}

\* the values the quick lookup can return for these answers
QUICK_OUTCOMES == {get_simple_ip(r1, r2) : r1, r2 \in ENDPOINT_RESPONSES}

TEXT_FULL ==
    [score |-> <<"8", "%">>, bot |-> <<"bot", " ", "2", "%">>,
     attr |-> <<"DC", "IP">>, src |-> <<"AWS">>, ip |-> IP_B]
TEXT_NOSCORE ==
    [score |-> EMPTY, bot |-> EMPTY, attr |-> EMPTY, src |-> EMPTY, ip |-> EMPTY]
TEXT_NOIP ==
    [score |-> <<"9", "5", "%">>, bot |-> EMPTY, attr |-> EMPTY, src |-> <<"ISP">>, ip |-> EMPTY]

PAGE_TEXTS == {TEXT_FULL, TEXT_NOSCORE, TEXT_NOIP}

DIRECT == <<"DIRECT">>
PROXY_NAMES == {<<"a">>, <<"b">>, <<"a", "r", "e">>, <<"u">>}

SeqsUpTo(S, n) == UNION {[1 .. k -> S] : k \in 0 .. n}

Entries(names) == [k \in 1 .. Len(names) |-> [name |-> names[k], server |-> k]]

\* a configuration document whose one group lists every proxy and DIRECT
MainDocument(names) ==
    [proxies |-> Entries(names), has_groups |-> TRUE,
     groups |-> << [name |-> <<"Proxy">>, has_proxies |-> TRUE,
                    proxies |-> names \o <<DIRECT>>] >>]

Put(f, k, v) == (k :> v) @@ f

\* ---------------------------------------------------------------- state
VARIABLES
    input_config,   \* the document as loaded (never changed)
    config,         \* config_data
    written,        \* the output file: <<>> or <<document>>
    fast_mode,      \* FAST_MODE
    pc,             \* where main is
    exit,           \* how the try block was left
    i,              \* index of the entry of the loop (1-based)
    attempt,        \* test_single_proxy: attempt
    res,            \* test_single_proxy: res, and main's res once it returned
    results_map,    \* main: results_map
    cache,          \* IPChecker.cache
    browser,        \* IPChecker.browser
    playwright,     \* IPChecker.playwright
    current_ip,     \* IPChecker.check: current_ip
    result,         \* IPChecker.check: result
    navigated,      \* the running check opened a browsing context
    selector_now,   \* the control plane: the selector's active proxy
    switch_log,     \* every switch_proxy call: [entry, name, ok]
    switch_resp,    \* the control plane's answer to the last switch_proxy call
    probe_log,      \* the check calls made for the entry under test
    probed,         \* indices of the entries the prober was invoked for
    first_probe,    \* ip -> the first returned result with that ip, and its entry
    sigint,         \* the first interrupt: [arrived, map]
    mode_set,       \* main: controller.set_mode("global") was requested
    reported,       \* the fatal error main or save_config_results printed
    call            \* one call of a method on its own: its input, then its return

vars == <<input_config, config, written, fast_mode, pc, exit, i, attempt, res,
          results_map, cache, browser, playwright, current_ip, result, navigated,
          selector_now, switch_log, switch_resp, probe_log, probed, first_probe, sigint,
          mode_set, reported, call>>

proxies == config.proxies

\* every iteration naming the first entry
Name_first == proxies[1].name

Name == proxies[i].name

EmptyMap == [x \in {} |-> EMPTY]
NO_CALL == [op |-> "none"]

InitCommon ==
    /\ config = input_config
    /\ written = <<>>
    /\ exit = "none"
    /\ i = 1
    /\ attempt = 0
    /\ res = None
    /\ cache = EmptyMap
    /\ browser = "none"
    /\ playwright = "none"
    /\ current_ip = EMPTY
    /\ result = None
    /\ navigated = FALSE
    /\ selector_now = EMPTY
    /\ switch_log = <<>>
    /\ switch_resp = NO_RESPONSE
    /\ probe_log = <<>>
    /\ probed = {}
    /\ first_probe = EmptyMap
    /\ sigint = [arrived |-> FALSE, map |-> EmptyMap]

\* main at its first line: the document is what the file holds if it loads
Init ==
    /\ input_config \in {MainDocument(names) : names \in SeqsUpTo(PROXY_NAMES, MaxProxies)}
    /\ fast_mode \in BOOLEAN
    /\ results_map = EmptyMap
    /\ pc = "load"
    /\ mode_set = FALSE
    /\ reported = "none"
    /\ call = NO_CALL
    /\ InitCommon

\* ------------------------------------------------------- control flow
docVars == <<input_config, fast_mode, reported, call>>
logVars == <<selector_now, switch_log, switch_resp, mode_set>>
checkerVars == <<browser, playwright>>
checkVars == <<current_ip, result, navigated>>

NoteSigint ==
    sigint' = IF sigint.arrived THEN sigint ELSE [arrived |-> TRUE, map |-> results_map]

\* the checker stopped after the try statement instead of in a finally clause
LeaveTry_no_finally(kind) ==
    /\ pc' = IF kind = "exception" THEN "crashed" ELSE "stop"
    /\ exit' = kind

\* main: the try block is left by an exception of the given kind
\* ("interrupt" is KeyboardInterrupt); the finally clause runs next
LeaveTry(kind) == pc' = "stop" /\ exit' = kind

\* a return whose summary main does not store
Return_unrecorded(r) ==
    /\ res' = r
    /\ results_map' = results_map
    /\ i' = i + 1
    /\ attempt' = 0
    /\ pc' = "loop"
    /\ exit' = exit

\* test_single_proxy returns r; main stores its summary (line 174)
Return(r) ==
    /\ res' = r
    /\ results_map' = Put(results_map, Name, r.full_string)
    /\ i' = i + 1
    /\ attempt' = 0
    /\ pc' = "loop"
    /\ exit' = exit

\* test_single_proxy after the retry loop: `if not res`
Finish(r) == Return(IF r = None THEN PlaceholderResult ELSE r)

\* one finished check call: the quick lookup's address, whether the cache held
\* it when the call began, whether a browsing context was opened, what came back
LogEntry(quick, nav, ret) ==
    [entry |-> i, quick |-> quick, hit |-> quick # EMPTY /\ quick \in DOMAIN cache,
     navigated |-> nav, ret |-> ret]

NoteFirstProbe(r) ==
    first_probe' =
        IF r.ip # UNKNOWN /\ r.ip \notin DOMAIN first_probe
        THEN Put(first_probe, r.ip, [entry |-> i, result |-> r])
        ELSE first_probe

\* a retry loop that does not stop at a satisfactory result
RetryAfterReturn_no_break(ret) ==
    IF attempt = 1
    THEN Finish(ret)
    ELSE /\ res' = ret
         /\ pc' = "retry_sleep"
         /\ UNCHANGED <<results_map, i, attempt, exit>>

\* test_single_proxy: the retry loop after checker.check returned ret
RetryAfterReturn(ret) ==
    IF Satisfactory(ret) \/ attempt = 1
    THEN Finish(ret)
    ELSE /\ res' = ret
         /\ pc' = "retry_sleep"
         /\ UNCHANGED <<results_map, i, attempt, exit>>

\* a retry loop that forgets the first result when the second attempt raises
RetryAfterRaise_forget ==
    IF attempt = 1
    THEN Finish(None)
    ELSE /\ attempt' = 1
         /\ pc' = "check_quick"
         /\ UNCHANGED <<res, results_map, i, exit>>

\* test_single_proxy: the retry loop after checker.check raised an Exception
RetryAfterRaise ==
    IF attempt = 1
    THEN Finish(res)
    ELSE /\ attempt' = 1
         /\ pc' = "check_quick"
         /\ UNCHANGED <<res, results_map, i, exit>>

\* IPChecker.check returns ret to test_single_proxy
CheckReturned(quick, nav, ret) ==
    /\ probe_log' = Append(probe_log, LogEntry(quick, nav, ret))
    /\ NoteFirstProbe(ret)
    /\ current_ip' = EMPTY
    /\ result' = None
    /\ navigated' = FALSE
    /\ RetryAfterReturn(ret)

\* IPChecker.check raises an Exception to test_single_proxy
CheckRaised(quick, nav) ==
    /\ probe_log' = Append(probe_log, LogEntry(quick, nav, RAISED))
    /\ first_probe' = first_probe
    /\ current_ip' = EMPTY
    /\ result' = None
    /\ navigated' = FALSE
    /\ RetryAfterRaise

\* ------------------------------------------------------------- actions
\* what opening and parsing the configuration file can come to
LOAD_OUTCOMES == {"missing", "unparsable", "not_a_mapping", "loaded"}

\* main: the file is looked up, opened and parsed; main returns when the file
\* is missing, when yaml.full_load raises, and when the document has no proxies;
\* a document that is no mapping has no get() and the AttributeError leaves main
LoadConfig ==
    /\ pc = "load"
    /\ \E outcome \in LOAD_OUTCOMES :
        /\ reported' = IF outcome \in {"missing", "unparsable"} THEN outcome
                        ELSE IF outcome = "loaded" /\ proxies = <<>> THEN "no_proxies"
                        ELSE reported
        /\ pc' = IF outcome \in {"missing", "unparsable"} THEN "returned"
                  ELSE IF outcome = "not_a_mapping" THEN "crashed"
                  ELSE IF proxies = <<>> THEN "returned"
                  ELSE "set_mode"
    /\ UNCHANGED <<input_config, fast_mode, call, checkerVars, checkVars, config, written,
                   exit, i, attempt, res, results_map, cache, logVars, probe_log, probed,
                   first_probe, sigint>>

\* main: the controller is built, global mode is requested and the running port
\* is asked for; neither answer changes what main does next
SetMode ==
    /\ pc = "set_mode"
    /\ mode_set' = TRUE
    /\ pc' = "start"
    /\ UNCHANGED <<docVars, checkerVars, checkVars, config, written, exit, i, attempt, res,
                   results_map, cache, selector_now, switch_log, switch_resp, probe_log,
                   probed, first_probe, sigint>>

\* IPChecker.start
StartChecker ==
    /\ pc = "start"
    /\ \E launched \in BOOLEAN :
        /\ playwright' = "running"
        /\ browser' = IF launched THEN "running" ELSE browser
        /\ pc' = IF launched THEN "loop" ELSE "crashed"
    /\ UNCHANGED <<docVars, checkVars, config, written, exit, i, attempt, res, results_map,
                   cache, logVars, probe_log, probed, first_probe, sigint>>

\* main: the head of the for loop and the skip logic.  The result of the
\* iteration before (dead from here on) and the log of its check calls are dropped.
LoopNext ==
    /\ pc = "loop"
    /\ IF i > Len(proxies)
       THEN LeaveTry("normal") /\ UNCHANGED i
       ELSE IF should_skip(Name)
       THEN i' = i + 1 /\ UNCHANGED <<pc, exit>>
       ELSE pc' = "switch" /\ UNCHANGED <<i, exit>>
    /\ res' = None
    /\ probe_log' = <<>>
    /\ UNCHANGED <<docVars, checkerVars, checkVars, config, written, attempt,
                   results_map, cache, logVars, probed, first_probe,
                   sigint>>

\* test_single_proxy: step 1, controller.switch_proxy
SwitchProxy ==
    /\ pc = "switch"
    /\ \E resp \in SWITCH_RESPONSES :
        /\ switch_log' = Append(switch_log, [entry |-> i, name |-> Name, ok |-> switch_proxy(resp)])
        /\ switch_resp' = resp
        /\ selector_now' = IF ~resp.raised /\ resp.status = 204 THEN Name ELSE selector_now
        /\ IF skip_ip_check(switch_proxy(resp))
           THEN Return(SwitchErrorResult)
           ELSE pc' = "settle" /\ UNCHANGED <<res, results_map, i, attempt, exit>>
    /\ UNCHANGED <<docVars, checkerVars, checkVars, config, written, cache, probe_log,
                   probed, first_probe, sigint, mode_set>>

\* test_single_proxy: step 2, the settle delay, then res = None
Settle ==
    /\ pc = "settle"
    /\ res' = None
    /\ attempt' = 0
    /\ pc' = IF fast_mode THEN "check_fast" ELSE "check_quick"
    /\ UNCHANGED <<docVars, checkerVars, checkVars, config, written, exit, i, results_map,
                   cache, logVars, probe_log, probed, first_probe, sigint>>

\* test_single_proxy: checker.check_fast, which IPChecker does not define:
\* the attribute lookup raises AttributeError, outside any try of the function
CheckFast ==
    /\ pc = "check_fast"
    /\ LeaveTry("exception")
    /\ UNCHANGED <<docVars, checkerVars, checkVars, config, written, i, attempt, res,
                   results_map, cache, logVars, probe_log, probed,
                   first_probe, sigint>>

\* IPChecker.check: the quick lookup and the cache lookup
CheckQuick ==
    /\ pc = "check_quick"
    /\ probed' = probed \cup {i}
    /\ \E ip \in QUICK_OUTCOMES :
        IF CacheHit(ip, cache)
        THEN CheckReturned(ip, FALSE, cache[ip])
        ELSE /\ current_ip' = ip
             /\ pc' = "check_open"
             /\ UNCHANGED <<result, navigated, probe_log, first_probe, res, results_map, i,
                            attempt, exit>>
    /\ UNCHANGED <<docVars, checkerVars, config, written, cache, logVars,
                   sigint>>

\* IPChecker.check: new_context, route, new_page (outside the try), the default
\* result, page.goto.  A failure to open raises to the caller; a failing goto
\* becomes the error result, returned unless the finally clause raises.
PageOpen ==
    /\ pc = "check_open"
    /\ \/ CheckRaised(current_ip, FALSE)
       \/ \E closed \in BOOLEAN :
            IF closed
            THEN CheckReturned(current_ip, TRUE,
                               ErrorResult(DefaultResult(current_ip), "Timeout"))
            ELSE CheckRaised(current_ip, TRUE)
       \/ /\ navigated' = TRUE
          /\ result' = DefaultResult(current_ip)
          /\ pc' = "check_wait"
          /\ UNCHANGED <<current_ip, probe_log, first_probe, res, results_map, i, attempt,
                         exit>>
    /\ UNCHANGED <<docVars, checkerVars, config, written, cache, logVars,
                   probed, sigint>>

\* IPChecker.check: page.wait_for_selector under the bare except: found or
\* timed out, the check goes on
WaitSelector ==
    /\ pc = "check_wait"
    /\ pc' = "check_parse"
    /\ UNCHANGED <<docVars, checkerVars, checkVars, config, written, exit, i, attempt, res,
                   results_map, cache, logVars, probe_log, probed,
                   first_probe, sigint>>

\* IPChecker.check: KeyboardInterrupt raised within page.wait_for_selector is
\* caught by the bare except and dropped
InterruptSwallowed ==
    /\ pc = "check_wait"
    /\ pc' = "check_parse"
    /\ NoteSigint
    /\ UNCHANGED <<docVars, checkerVars, checkVars, config, written, exit, i, attempt, res,
                   results_map, cache, logVars, probe_log, probed,
                   first_probe>>

\* IPChecker.check: the result of the try block given the page text, or the
\* error result when wait_for_timeout or inner_text raises (text = <<>>)
TryResult(text, r0) ==
    IF text = <<>> THEN ErrorResult(r0, "Timeout") ELSE ParsePage(text[1], r0)

\* IPChecker.check: the cache after the try block
CacheAfter(text, r, c) ==
    IF text # <<>> /\ ShouldCache(r) THEN Put(c, r.ip, r) ELSE c

\* IPChecker.check: wait_for_timeout, inner_text, the parsing, the cache update,
\* the finally clause (page.close, context.close) and the return
PageParse ==
    /\ pc = "check_parse"
    /\ \E text \in {<<t>> : t \in PAGE_TEXTS} \cup {<<>>}, closed \in BOOLEAN :
        LET r == TryResult(text, result) IN
        /\ cache' = CacheAfter(text, r, cache)
        /\ IF closed
           THEN CheckReturned(current_ip, navigated, r)
           ELSE CheckRaised(current_ip, navigated)
    /\ UNCHANGED <<docVars, checkerVars, config, written, logVars, probed,
                   sigint>>

\* test_single_proxy: the sleep before the second attempt
RetrySleep ==
    /\ pc = "retry_sleep"
    /\ attempt' = 1
    /\ pc' = "check_quick"
    /\ UNCHANGED <<docVars, checkerVars, checkVars, config, written, exit, i, res,
                   results_map, cache, logVars, probe_log, probed,
                   first_probe, sigint>>

\* the suspension points at which KeyboardInterrupt propagates to main
INTERRUPTIBLE ==
    {"loop", "switch", "settle", "check_fast", "check_quick", "check_open",
     "check_parse", "retry_sleep"}

\* KeyboardInterrupt: no `except Exception` catches it; main's except does.
\* The frames of check and test_single_proxy are unwound.
Interrupt ==
    /\ pc \in INTERRUPTIBLE
    /\ LeaveTry("interrupt")
    /\ NoteSigint
    /\ current_ip' = EMPTY
    /\ result' = None
    /\ navigated' = FALSE
    /\ attempt' = 0
    /\ res' = None
    /\ probe_log' = <<>>
    /\ UNCHANGED <<docVars, checkerVars, config, written, i, results_map, cache,
                   logVars, probed, first_probe>>

\* IPChecker.stop
BrowserAfterStop(b) == IF b # "none" THEN "closed" ELSE b
PlaywrightAfterStop(p) == IF p # "none" THEN "stopped" ELSE p

\* main: the finally clause; an exception other than KeyboardInterrupt then
\* leaves main
StopChecker ==
    /\ pc = "stop"
    /\ browser' = BrowserAfterStop(browser)
    /\ playwright' = PlaywrightAfterStop(playwright)
    /\ pc' = IF exit = "exception" THEN "crashed" ELSE "save"
    /\ UNCHANGED <<docVars, checkVars, config, written, exit, i, attempt, res, results_map,
                   cache, logVars, probe_log, probed, first_probe, sigint>>

\* main: save_config_results; a failing write is reported and dropped
SaveResults ==
    /\ pc = "save"
    /\ config' = save_config_results(config, results_map)
    /\ \E wrote \in BOOLEAN :
        /\ written' = IF wrote THEN <<config'>> ELSE written
        /\ reported' = IF wrote THEN reported ELSE "unwritable"
    /\ pc' = "done"
    /\ UNCHANGED <<input_config, fast_mode, call, checkerVars, checkVars, exit, i, attempt, res, results_map,
                   cache, logVars, probe_log, probed, first_probe, sigint>>

Next ==
    \/ LoadConfig
    \/ SetMode
    \/ StartChecker
    \/ LoopNext
    \/ SwitchProxy
    \/ Settle
    \/ CheckFast
    \/ CheckQuick
    \/ PageOpen
    \/ WaitSelector
    \/ InterruptSwallowed
    \/ PageParse
    \/ RetrySleep
    \/ Interrupt
    \/ StopChecker
    \/ SaveResults

Spec == Init /\ [][Next]_vars

\* --------------------------- a run that is not interrupted, in browser mode
\* The event loop runs main's one task until it ends: every await is answered,
\* fails or times out, so a step that can be taken is taken.
UniqueNames(names) == \A j, k \in 1 .. Len(names) : names[j] = names[k] => j = k

InitRun ==
    /\ input_config \in {MainDocument(names) :
            names \in {n \in SeqsUpTo(PROXY_NAMES, MaxProxies) : UniqueNames(n)}}
    /\ fast_mode = FALSE
    /\ results_map = EmptyMap
    /\ pc = "load"
    /\ mode_set = FALSE
    /\ reported = "none"
    /\ call = NO_CALL
    /\ InitCommon

NextRun ==
    \/ LoadConfig
    \/ SetMode
    \/ StartChecker
    \/ LoopNext
    \/ SwitchProxy
    \/ Settle
    \/ CheckQuick
    \/ PageOpen
    \/ WaitSelector
    \/ PageParse
    \/ RetrySleep
    \/ StopChecker
    \/ SaveResults

SpecRun == InitRun /\ [][NextRun]_vars /\ WF_vars(NextRun)

\* ------------------------------------- save_config_results on its own
SAVE_NAMES == {<<"a">>, <<"b">>}
SAVE_MEMBERS == SAVE_NAMES \cup {DIRECT}
SAVE_KEYS == {<<"a">>, <<"z">>}
SAVE_SUMMARIES ==
    {<<"[[", "X", " ", "Switch Error", "]]">>, <<"[[", "white", "white", " ", "DC", "|", "AWS", "]]">>}

SaveGroups ==
    {[name |-> <<"Proxy">>, has_proxies |-> FALSE, proxies |-> <<>>]}
    \cup {[name |-> <<"Proxy">>, has_proxies |-> TRUE, proxies |-> m] :
            m \in SeqsUpTo(SAVE_MEMBERS, MaxMembers)}

SaveDocuments ==
    {[proxies |-> Entries(names), has_groups |-> FALSE, groups |-> <<>>] :
        names \in SeqsUpTo(SAVE_NAMES, MaxSaveProxies)}
    \cup {[proxies |-> Entries(names), has_groups |-> TRUE, groups |-> gs] :
        names \in SeqsUpTo(SAVE_NAMES, MaxSaveProxies), gs \in SeqsUpTo(SaveGroups, MaxGroups)}

SaveMaps == UNION {[keys -> SAVE_SUMMARIES] : keys \in SUBSET SAVE_KEYS}

\* main at the call of save_config_results, for any document and any map
InitSave ==
    /\ input_config \in SaveDocuments
    /\ results_map \in SaveMaps
    /\ fast_mode = FALSE
    /\ pc = "save"
    /\ config = input_config
    /\ written = <<>>
    /\ exit = "normal"
    /\ i = Len(input_config.proxies) + 1
    /\ attempt = 0
    /\ res = None
    /\ cache = EmptyMap
    /\ browser = "closed"
    /\ playwright = "stopped"
    /\ current_ip = EMPTY
    /\ result = None
    /\ navigated = FALSE
    /\ selector_now = EMPTY
    /\ switch_log = <<>>
    /\ switch_resp = NO_RESPONSE
    /\ probe_log = <<>>
    /\ probed = {}
    /\ first_probe = EmptyMap
    /\ sigint = [arrived |-> FALSE, map |-> EmptyMap]
    /\ mode_set = TRUE
    /\ reported = "none"
    /\ call = NO_CALL

NextSave == SaveResults

SpecSave == InitSave /\ [][NextSave]_vars

\* ------------------------------------------- the methods called on their own
\* switch_proxy: the PUT times out, fails in the network, or is answered
SWITCH_ANSWERS ==
    {[raised |-> TRUE, status |-> 0, why |-> w] : w \in {"timeout", "network"}}
    \cup {[raised |-> FALSE, status |-> st, why |-> "none"] : st \in {200, 204, 205, 404, 500}}

\* get_running_port: the live configuration, a mapping from some of the three
\* keys to port numbers
PORT_KEYS == {"mixed-port", "port", "socks-port"}
PORT_NUMBERS == {0, 1080, 7890, 7891}
CONFS == UNION {[K -> PORT_NUMBERS] : K \in SUBSET PORT_KEYS}
CONFIG_ANSWERS ==
    {[raised |-> TRUE, status |-> 0, json |-> FALSE, conf |-> EmptyMap]}
    \cup {[raised |-> FALSE, status |-> st, json |-> j, conf |-> c] :
            st \in {200, 204, 500}, j \in BOOLEAN, c \in CONFS}

\* get_emoji: the strings it is given
PERCENT_TOKENS == {"0", "1", "3", "5", "7", "9", ".", "%", "(?)"}
PERCENT_STRINGS == SeqsUpTo(PERCENT_TOKENS, MaxPercentLen)

\* get_simple_ip: what an address endpoint can answer
IP_LONG == <<"9", ".", "9", ".", "9", ".", "1", "2", "3", "4">>
LOOKUP_TEXTS == {IP_A \o <<"\n">>, IP_B, IP_LONG, <<"o", "k">>, EMPTY}
LOOKUP_ANSWERS ==
    {[raised |-> TRUE, status |-> 0, text |-> EMPTY]}
    \cup {[raised |-> FALSE, status |-> st, text |-> t] : st \in {200, 500}, t \in LOOKUP_TEXTS}

callFrame ==
    <<input_config, config, written, fast_mode, pc, exit, i, attempt, res, results_map,
      cache, browser, playwright, current_ip, result, navigated, selector_now, switch_log,
      switch_resp, probe_log, probed, first_probe, sigint, mode_set, reported>>

InitCalls ==
    /\ \/ call \in {[op |-> "switch_proxy", resp |-> r, done |-> FALSE] : r \in SWITCH_ANSWERS}
       \/ call \in {[op |-> "get_running_port", resp |-> r, done |-> FALSE] : r \in CONFIG_ANSWERS}
       \/ call \in {[op |-> "get_emoji", percentage_str |-> x, done |-> FALSE] :
                        x \in PERCENT_STRINGS}
       \/ call \in {[op |-> "get_simple_ip", resp1 |-> r1, resp2 |-> r2, done |-> FALSE] :
                        r1, r2 \in LOOKUP_ANSWERS}
    /\ input_config = MainDocument(<<>>)
    /\ fast_mode = FALSE
    /\ results_map = EmptyMap
    /\ pc = "call"
    /\ mode_set = FALSE
    /\ reported = "none"
    /\ InitCommon

CallSwitchProxy ==
    /\ call.op = "switch_proxy"
    /\ ~call.done
    /\ call' = [op |-> call.op, resp |-> call.resp, done |-> TRUE,
                 ret |-> switch_proxy(call.resp)]
    /\ UNCHANGED callFrame

CallGetRunningPort ==
    /\ call.op = "get_running_port"
    /\ ~call.done
    /\ call' = [op |-> call.op, resp |-> call.resp, done |-> TRUE,
                 ret |-> get_running_port(call.resp)]
    /\ UNCHANGED callFrame

CallGetEmoji ==
    /\ call.op = "get_emoji"
    /\ ~call.done
    /\ call' = [op |-> call.op, percentage_str |-> call.percentage_str, done |-> TRUE,
                 ret |-> get_emoji(call.percentage_str)]
    /\ UNCHANGED callFrame

CallGetSimpleIp ==
    /\ call.op = "get_simple_ip"
    /\ ~call.done
    /\ call' = [op |-> call.op, resp1 |-> call.resp1, resp2 |-> call.resp2, done |-> TRUE,
                 ret |-> get_simple_ip(call.resp1, call.resp2)]
    /\ UNCHANGED callFrame

NextCalls ==
    \/ CallSwitchProxy
    \/ CallGetRunningPort
    \/ CallGetEmoji
    \/ CallGetSimpleIp

SpecCalls == InitCalls /\ [][NextCalls]_vars

\* ================================================================ claims
InputName(k) == input_config.proxies[k].name
Indices == 1 .. Len(input_config.proxies)
Last(q) == q[Len(q)]

\* the claims' own reading of the spec's words
HasSkipSubstring(n) ==
    \E j \in 1 .. Len(SKIP_KEYWORDS), a \in 1 .. Len(n), b \in 1 .. Len(n) :
        SubSeq(n, a, b) = SKIP_KEYWORDS[j]
SwitchErrorSummary == <<"[[", "X", " ", "Switch Error", "]]">>
FixedErrorSummary == <<"[[", "X", " ", "Error", "]]">>
IsSatisfactory(r) == r # RAISED /\ r.error = "None" /\ r.pure_score # <<"(?)">>
Annotated(n, m) == IF n \in DOMAIN m THEN n \o <<" ">> \o m[n] ELSE n

\* C1: an entry whose name contains a skip substring is never switched to, never
\* probed, never a key of results_map, and keeps its name in the written document.
C1_SkippedUntouched ==
    \A k \in Indices :
        HasSkipSubstring(InputName(k)) =>
            /\ \A j \in 1 .. Len(switch_log) : switch_log[j].name # InputName(k)
            /\ \A e \in probed : InputName(e) # InputName(k)
            /\ InputName(k) \notin DOMAIN results_map
            /\ written # <<>> => written[1].proxies[k].name = InputName(k)

C1_Witness ==
    /\ pc = "done"
    /\ written # <<>>
    /\ \E k \in Indices : InputName(k) = <<"u">>
    /\ \E k \in Indices : written[1].proxies[k].name # InputName(k)

\* C2: after a switch_proxy call that returned false (a status other than 204,
\* or an exception), the entry has no prober call, its annotation is the
\* switch-error summary, and the loop has moved on to the next entry.
C2_SwitchFailureRecorded ==
    (switch_log # <<>> /\ (switch_resp.raised \/ switch_resp.status # 204)) =>
        /\ Last(switch_log).entry \notin probed
        /\ probe_log = <<>>
        /\ Last(switch_log).name \in DOMAIN results_map
        /\ results_map[Last(switch_log).name] = SwitchErrorSummary
        /\ i > Last(switch_log).entry
        /\ pc \in {"loop", "switch", "stop", "save", "done"}

C2_Witness ==
    /\ pc = "check_open"
    /\ i = 2
    /\ ~switch_log[1].ok
    /\ results_map[InputName(1)] = SwitchErrorSummary

\* C3 as stated: with two attempts made, an unsatisfactory first and a
\* satisfactory second records the second; two unsatisfactory or failing
\* attempts record the result of the second; the placeholder only when both raised.
C3_Original ==
    (pc = "loop" /\ Len(probe_log) = 2) =>
        LET a1 == probe_log[1].ret
            a2 == probe_log[2].ret
        IN  /\ (a1 # RAISED /\ ~IsSatisfactory(a1) /\ IsSatisfactory(a2)) => res = a2
            /\ (~IsSatisfactory(a1) /\ ~IsSatisfactory(a2) /\ ~(a1 = RAISED /\ a2 = RAISED))
                    => res = a2
            /\ res.full_string = FixedErrorSummary => (a1 = RAISED /\ a2 = RAISED)

\* C3 amended: the second attempt's result is recorded whenever the second
\* attempt returned one; when it raised, the first attempt's result is kept and
\* recorded; the placeholder is recorded exactly when both attempts raised.
C3_LastObtainedRecorded ==
    (pc = "loop" /\ Len(probe_log) = 2) =>
        LET a1 == probe_log[1].ret
            a2 == probe_log[2].ret
            recorded == results_map[InputName(probe_log[2].entry)]
        IN  /\ a2 # RAISED => res = a2
            /\ (a2 = RAISED /\ a1 # RAISED) => res = a1
            /\ (a1 = RAISED /\ a2 = RAISED) <=> res.full_string = FixedErrorSummary
            /\ recorded = res.full_string

C3_Witness ==
    /\ pc = "loop"
    /\ Len(probe_log) = 2
    /\ probe_log[1].ret # RAISED
    /\ probe_log[2].ret = RAISED
    /\ res = probe_log[1].ret

\* C4: the prober's check is invoked at most twice for an entry, and a second
\* time only when the first attempt raised or returned an unsatisfactory result.
Invocations ==
    Len(probe_log) + IF pc \in {"check_open", "check_wait", "check_parse"} THEN 1 ELSE 0

C4_AtMostTwoAttempts ==
    /\ Invocations <= 2
    /\ (Invocations = 2 \/ pc \in {"retry_sleep", "check_quick"}) =>
            (probe_log = <<>> \/ ~IsSatisfactory(probe_log[1].ret))
    /\ (probe_log # <<>> /\ IsSatisfactory(probe_log[1].ret)) =>
            (Invocations = 1 /\ pc = "loop")

C4_Witness ==
    /\ pc = "loop"
    /\ Len(probe_log) = 2
    /\ probe_log[1].ret # RAISED
    /\ IsSatisfactory(probe_log[2].ret)

\* C5: every cache entry has a known ip and a known pure_score, no error, and is
\* stored under its own ip.
C5_CacheOnlyComplete ==
    \A ip \in DOMAIN cache :
        /\ cache[ip].ip = ip
        /\ ip # <<"(?)">>
        /\ ip # <<>>
        /\ cache[ip].pure_score # <<"(?)">>
        /\ cache[ip].error = "None"

C5_Witness ==
    /\ pc = "loop"
    /\ Len(probe_log) = 2
    /\ probe_log[1].ret # RAISED
    /\ probe_log[1].ret.ip = IP_A
    /\ probe_log[1].ret.pure_score = <<"(?)">>
    /\ probe_log[2].ret # RAISED
    /\ probe_log[2].ret.error # "None"
    /\ IP_A \notin DOMAIN cache
    /\ IP_B \in DOMAIN cache

\* C6 as stated: a probe that resolves to an address an earlier entry's probe
\* resolved to opens no browsing context and returns that earlier result.
C6_Original ==
    \A k \in 1 .. Len(probe_log) :
        LET e == probe_log[k] IN
        (e.ret # RAISED /\ e.ret.ip # UNKNOWN /\ e.ret.ip \in DOMAIN first_probe
            /\ first_probe[e.ret.ip].entry # e.entry) =>
            (~e.navigated /\ e.ret = first_probe[e.ret.ip].result)

\* C6 amended: a probe whose quick lookup returns an address that is a key of
\* the cache opens no browsing context and returns the result cached under it.
C6_CachedAddressNotNavigated ==
    /\ \A k \in 1 .. Len(probe_log) :
        LET e == probe_log[k] IN
        e.hit => (~e.navigated /\ e.ret # RAISED /\ e.ret = cache[e.quick] /\ e.ret.ip = e.quick)
    /\ pc \in {"check_open", "check_wait", "check_parse"} =>
            (current_ip = <<>> \/ current_ip \notin DOMAIN cache)

C6_Witness ==
    /\ pc = "loop"
    /\ probe_log # <<>>
    /\ probe_log[1].hit
    /\ probe_log[1].entry = 2
    /\ first_probe[probe_log[1].quick].entry = 1

\* C7: once an interrupt has arrived during the loop, the loop has stopped, the
\* annotations are exactly those present when it arrived, and the written
\* document renames exactly the entries they name.
C7_InterruptStopsLoop ==
    sigint.arrived =>
        /\ pc \in {"stop", "save", "done"}
        /\ results_map = sigint.map
        /\ written # <<>> =>
            \A k \in Indices : written[1].proxies[k].name = Annotated(InputName(k), sigint.map)

\* C8: once main is past the try statement of a run whose session was acquired,
\* the browser is closed and the playwright driver stopped.
C8_SessionReleased ==
    (pc \in {"save", "done", "crashed"} /\ browser # "none") =>
        (browser = "closed" /\ playwright = "stopped")

C8_Witness ==
    /\ pc = "crashed"
    /\ exit = "exception"
    /\ browser = "closed"
    /\ playwright = "stopped"

\* C9: save_config_results keeps the length and order of the proxy list; the
\* k-th name is "<original> <summary>" if the original is a key of the map and
\* the original otherwise; no other field changes.
C9_ProxiesRenamed ==
    pc = "done" =>
        /\ Len(config.proxies) = Len(input_config.proxies)
        /\ \A k \in Indices :
            /\ config.proxies[k].name = Annotated(InputName(k), results_map)
            /\ config.proxies[k].server = input_config.proxies[k].server
            /\ DOMAIN config.proxies[k] = DOMAIN input_config.proxies[k]
        /\ written # <<>> => written[1] = config

C9_Witness ==
    /\ pc = "done"
    /\ written # <<>>
    /\ \E k \in Indices : InputName(k) \in DOMAIN results_map
    /\ \E k \in Indices : InputName(k) \notin DOMAIN results_map
    /\ \E n \in DOMAIN results_map : \A k \in Indices : InputName(k) # n

\* C10: every group member that names a renamed proxy is replaced by the new
\* name at the same position, every other member is kept, the member lists keep
\* their lengths, and a replaced member names a proxy of the output document.
RenamedNames == {InputName(k) : k \in Indices} \cap DOMAIN results_map

C10_GroupsFollowRename ==
    pc = "done" =>
        /\ config.has_groups = input_config.has_groups
        /\ Len(config.groups) = Len(input_config.groups)
        /\ \A g \in 1 .. Len(input_config.groups) :
            LET gin == input_config.groups[g]
                gout == config.groups[g]
            IN  /\ gout.name = gin.name
                /\ gout.has_proxies = gin.has_proxies
                /\ Len(gout.proxies) = Len(gin.proxies)
                /\ \A m \in 1 .. Len(gin.proxies) :
                    /\ gout.proxies[m] =
                        IF input_config.has_groups /\ gin.has_proxies /\ gin.proxies[m] \in RenamedNames
                        THEN Annotated(gin.proxies[m], results_map)
                        ELSE gin.proxies[m]
                    /\ (input_config.has_groups /\ gin.has_proxies /\ gin.proxies[m] \in RenamedNames) =>
                        \E k \in Indices : config.proxies[k].name = gout.proxies[m]

C10_Witness ==
    /\ pc = "done"
    /\ input_config.has_groups
    /\ Len(input_config.groups) = 1
    /\ Len(input_config.groups[1].proxies) = 2
    /\ input_config.groups[1].proxies[1] \in RenamedNames
    /\ config.groups[1].proxies[1] # input_config.groups[1].proxies[1]
    /\ input_config.groups[1].proxies[2] \notin RenamedNames
    /\ config.groups[1].proxies[2] = input_config.groups[1].proxies[2]

\* C11: every finished call of the full check returned a result with all nine
\* fields and a non-empty full_string; none raised to test_single_proxy.
RESULT_FIELDS ==
    {"pure_emoji", "bot_emoji", "ip_attr", "ip_src", "pure_score", "bot_score",
     "full_string", "ip", "error"}

C11_CheckNeverRaises ==
    \A k \in 1 .. Len(probe_log) :
        /\ probe_log[k].ret # RAISED
        /\ DOMAIN probe_log[k].ret = RESULT_FIELDS
        /\ probe_log[k].ret.full_string # <<>>

\* C12: a finished switch_proxy call returned a boolean, and returned true
\* exactly when the PUT was answered with status 204; a timeout, a network
\* failure and every other status gave false.
C12_SwitchTrueIff204 ==
    (call.op = "switch_proxy" /\ call.done) =>
        /\ call.ret \in BOOLEAN
        /\ call.ret <=> (call.resp.why = "none" /\ call.resp.status = 204)

C12_Witness ==
    /\ call.op = "switch_proxy"
    /\ call.done
    /\ call.resp.why = "timeout"
    /\ call.ret = FALSE

\* C13: get_running_port returns the first non-zero value among mixed-port,
\* port, socks-port of an answer with status 200 that decodes, and 7890 when
\* the query fails, the status is not 200, or no key holds a non-zero value;
\* it never returns zero.
PortPriority == <<"mixed-port", "port", "socks-port">>
PortAt(conf, k) == IF PortPriority[k] \in DOMAIN conf THEN conf[PortPriority[k]] ELSE 0
NonZeroPorts(conf) == {k \in 1 .. 3 : PortAt(conf, k) # 0}

C13_FirstNonZeroPort ==
    (call.op = "get_running_port" /\ call.done) =>
        LET answered == ~call.resp.raised /\ call.resp.status = 200 /\ call.resp.json
            nz == NonZeroPorts(call.resp.conf)
        IN  /\ (answered /\ nz # {}) =>
                call.ret = PortAt(call.resp.conf, CHOOSE k \in nz : \A j \in nz : k <= j)
            /\ (~answered \/ nz = {}) => call.ret = 7890
            /\ call.ret # 0

C13_Witness ==
    /\ call.op = "get_running_port"
    /\ call.done
    /\ call.resp.status = 200
    /\ call.resp.json
    /\ DOMAIN call.resp.conf = {"mixed-port", "port", "socks-port"}
    /\ call.resp.conf["mixed-port"] = 0
    /\ call.resp.conf["port"] = 1080
    /\ call.resp.conf["socks-port"] = 7891
    /\ call.ret = 1080

\* C14: a percentage value (a decimal number, a "%" after it or not) is mapped
\* to the emoji of its band, a boundary value to the lower band; an input that
\* is no decimal number once its "%" are dropped, the unknown sentinel included,
\* is mapped to the question-mark emoji; every input is mapped to one emoji.
RECURSIVE Pow10(_)
Pow10(n) == IF n = 0 THEN 1 ELSE 10 * Pow10(n - 1)
DigitsOf(t) == SelectSeq(t, LAMBDA c : c \in DIGITS)
IsDecimal(t) ==
    /\ \A k \in 1 .. Len(t) : t[k] \in DIGITS \cup {"."}
    /\ Cardinality({k \in 1 .. Len(t) : t[k] = "."}) <= 1
    /\ DigitsOf(t) # <<>>
FractionDigits(t) ==
    IF \E k \in 1 .. Len(t) : t[k] = "."
    THEN Len(t) - (CHOOSE k \in 1 .. Len(t) : t[k] = ".")
    ELSE 0
\* v <= n for the decimal t, both scaled by the power of ten of t's fraction
AtMost(t, n) == IntVal(DigitsOf(t)) <= n * Pow10(FractionDigits(t))
Band(t) ==
    IF AtMost(t, 10) THEN "white"
    ELSE IF AtMost(t, 30) THEN "green"
    ELSE IF AtMost(t, 50) THEN "yellow"
    ELSE IF AtMost(t, 70) THEN "orange"
    ELSE IF AtMost(t, 90) THEN "red"
    ELSE "black"
WithoutPercentSign(s) == IF s # <<>> /\ s[Len(s)] = "%" THEN SubSeq(s, 1, Len(s) - 1) ELSE s

C14_EmojiBands ==
    (call.op = "get_emoji" /\ call.done) =>
        LET s == call.percentage_str IN
        /\ call.ret \in {"white", "green", "yellow", "orange", "red", "black", "(?)"}
        /\ IsDecimal(WithoutPercentSign(s)) => call.ret = Band(WithoutPercentSign(s))
        /\ ~IsDecimal(SelectSeq(s, LAMBDA c : c # "%")) => call.ret = "(?)"

C14_Witness ==
    /\ call.op = "get_emoji"
    /\ call.done
    /\ call.percentage_str = <<"1", "0", "%">>
    /\ call.ret = "white"

\* C15: the quick lookup returns the first of the two answers that has status
\* 200 and is a dotted-quad of four groups of one to three digits, and unknown
\* when neither is.
ValidDottedQuad(s) ==
    \E a, b, c, d \in 1 .. 3 :
        /\ Len(s) = a + b + c + d + 3
        /\ \A k \in 1 .. Len(s) :
            IF k \in {a + 1, a + b + 2, a + b + c + 3} THEN s[k] = "." ELSE s[k] \in DIGITS
AnsweredQuad(r) ==
    IF ~r.raised /\ r.status = 200 /\ ValidDottedQuad(Strip(r.text)) THEN Strip(r.text) ELSE <<>>

C15_FirstValidDottedQuad ==
    (call.op = "get_simple_ip" /\ call.done) =>
        /\ AnsweredQuad(call.resp1) # <<>> => call.ret = AnsweredQuad(call.resp1)
        /\ (AnsweredQuad(call.resp1) = <<>> /\ AnsweredQuad(call.resp2) # <<>>) =>
                call.ret = AnsweredQuad(call.resp2)
        /\ (AnsweredQuad(call.resp1) = <<>> /\ AnsweredQuad(call.resp2) = <<>>) => call.ret = <<>>
        /\ call.ret # <<>> => ValidDottedQuad(call.ret)

\* C16: once an interrupt has arrived and stopped the loop, every entry that
\* was switched to has its result recorded.
C16_InterruptOnlyAtBoundary ==
    (sigint.arrived /\ pc \in {"stop", "save", "done", "crashed"}) =>
        \A j \in 1 .. Len(switch_log) : switch_log[j].name \in DOMAIN results_map

\* C17: switch_proxy is called for the entries in list order, once each, with
\* the entry's own name; while the prober works the last switch_proxy call was
\* for the entry under test and returned true, and the selector points at that
\* entry; every prober call was made for an entry whose switch returned true;
\* and probing is entered only from the settle delay of that entry.
Probing == {"check_quick", "check_open", "check_wait", "check_parse", "retry_sleep"}

C17_SwitchedBeforeProbed ==
    /\ \A j \in 1 .. Len(switch_log) :
        /\ switch_log[j].name = InputName(switch_log[j].entry)
        /\ switch_log[j].entry <= i
        /\ \A k \in 1 .. Len(switch_log) : j < k => switch_log[j].entry < switch_log[k].entry
    /\ pc \in Probing =>
        /\ switch_log # <<>>
        /\ Last(switch_log).entry = i
        /\ Last(switch_log).ok
        /\ selector_now = InputName(i)
    /\ \A e \in probed : \E j \in 1 .. Len(switch_log) : switch_log[j].entry = e /\ switch_log[j].ok
    /\ \A k \in 1 .. Len(probe_log) : probe_log[k].entry = Last(switch_log).entry

C17_SettledBeforeProbed ==
    (pc' \in Probing /\ pc \notin Probing) =>
        (pc = "settle" /\ Last(switch_log).ok /\ Last(switch_log).entry = i /\ i' = i)

C17_ProbeAfterSwitch == [](C17_SwitchedBeforeProbed) /\ [][C17_SettledBeforeProbed]_vars

C17_Witness ==
    /\ pc = "check_parse"
    /\ attempt = 1
    /\ i = 2
    /\ Len(switch_log) = 2
    /\ switch_log[1].ok
    /\ probed = {1, 2}

\* C18: when a fatal error has been reported (file missing, document
\* unparsable, output not writable) the run has ended and has issued no
\* set_mode request, no switch_proxy request and no probe.
C18_FatalBeforeAnyWork ==
    reported \in {"missing", "unparsable", "unwritable"} =>
        /\ pc \in {"returned", "done"}
        /\ ~mode_set
        /\ switch_log = <<>>
        /\ probed = {}

\* C19: a result the full check returned with an error carries the fixed error
\* summary, the one the orchestrator records when both attempts raised.
C19_FixedErrorSummary ==
    \A k \in 1 .. Len(probe_log) :
        (probe_log[k].ret # RAISED /\ probe_log[k].ret.error # "None") =>
            /\ probe_log[k].ret.full_string = FixedErrorSummary
            /\ probe_log[k].ret.full_string = PlaceholderResult.full_string

\* C20: in fast mode no exception leaves the loop, every entry whose switch
\* succeeded is annotated once the loop is past it, and a run whose checker
\* started ends with the document written or the write reported.
C20_FastModeCompletes ==
    fast_mode =>
        /\ exit # "exception"
        /\ \A j \in 1 .. Len(switch_log) :
            (switch_log[j].ok /\ (switch_log[j].entry < i \/ pc \in {"stop", "save", "done"})
                /\ ~sigint.arrived) => switch_log[j].name \in DOMAIN results_map
        /\ (pc = "crashed" => browser = "none")

\* C21: in a run over uniquely named entries that is not interrupted and whose
\* calls all return, the entries are visited one by one in list order,
\* switch_proxy is called at most once per entry, the keys of results_map are
\* at every moment the non-skipped names among the entries the loop is past
\* (all non-skipped names at finalization), a recorded annotation is never
\* changed or removed, and the run that reached the loop ends with
\* save_config_results done.
NonSkippedUpTo(n) == {InputName(k) : k \in {j \in 1 .. n : ~HasSkipSubstring(InputName(j))}}

C21_KeysAreNonSkipped ==
    /\ i \in 1 .. Len(input_config.proxies) + 1
    /\ \A j, k \in 1 .. Len(switch_log) : switch_log[j].entry = switch_log[k].entry => j = k
    /\ \A j \in 1 .. Len(switch_log) : ~HasSkipSubstring(InputName(switch_log[j].entry))
    /\ pc \notin {"load", "returned", "crashed"} => DOMAIN results_map = NonSkippedUpTo(i - 1)
    /\ pc \in {"stop", "save", "done"} =>
        /\ exit = "normal"
        /\ i = Len(input_config.proxies) + 1
        /\ DOMAIN results_map = NonSkippedUpTo(Len(input_config.proxies))

C21_AnnotationsKept ==
    /\ i' \in {i, i + 1}
    /\ \A n \in DOMAIN results_map : n \in DOMAIN results_map' /\ results_map'[n] = results_map[n]

C21_RunCompletes ==
    /\ [](C21_KeysAreNonSkipped)
    /\ [][C21_AnnotationsKept]_vars
    /\ (pc = "loop") ~> (pc = "done")

C21_Witness ==
    /\ pc = "done"
    /\ Len(input_config.proxies) = 2
    /\ InputName(1) = <<"u">>
    /\ InputName(2) = <<"a">>
    /\ DOMAIN results_map = {<<"a">>}
    /\ results_map[<<"a">>] = FixedErrorSummary
    /\ Len(switch_log) = 1

====
